---------------------------- MODULE Spec2Model ----------------------------
(***************************************************************************)
(* Model of qubicpack/temperature_analysis.py: the per-channel NEP         *)
(* estimation (calculate_TES_NEP), its input validation                    *)
(* (verify_temperature_arguments) and the entry points built on them.      *)
(*                                                                         *)
(* Numbers.  The program computes in IEEE double precision.  The model     *)
(* computes the same expressions, in the same order, in exact arithmetic   *)
(* over the values                                                         *)
(*     (num/den) * 10^e10 * kBoltzmann^kb,   +Infinity, -Infinity, NaN     *)
(* so rounding, overflow and underflow of the doubles are not modelled,    *)
(* while division by zero, Infinity and NaN are (numpy's float64 returns   *)
(* them with a warning; math.sqrt raises ValueError on a negative          *)
(* argument).  Every zero is +0.0.  kBoltzmann is kept as a symbolic       *)
(* positive unit (its mantissa does not fit TLC's integers).  A square     *)
(* root is kept exactly, as a sign and the square of the value.            *)
(***************************************************************************)
EXTENDS Integers, Sequences, FiniteSets, TLC

(***************************************************************************)
(* Exact arithmetic                                                        *)
(***************************************************************************)
RECURSIVE GCD(_, _)
GCD(a, b) == IF b = 0 THEN a ELSE GCD(b, a % b)

Abs(i) == IF i < 0 THEN -i ELSE i

RECURSIVE IPow(_, _)
\* b^e for integers b and e >= 0
IPow(b, e) == IF e = 0 THEN 1 ELSE b * IPow(b, e - 1)

NaN == [k |-> "nan", num |-> 0, den |-> 1, e10 |-> 0, kb |-> 0]
PInf == [k |-> "inf", num |-> 1, den |-> 1, e10 |-> 0, kb |-> 0]
NInf == [k |-> "inf", num |-> -1, den |-> 1, e10 |-> 0, kb |-> 0]
Zero == [k |-> "fin", num |-> 0, den |-> 1, e10 |-> 0, kb |-> 0]

RECURSIVE NormR(_, _, _, _)
\* canonical form: num/den in lowest terms and both coprime to 5 (every
\* factor 5 is moved into the power of ten)
NormR(n, d, e, b) ==
    IF n % 5 = 0 THEN
        (IF n % 10 = 0 THEN NormR(n \div 10, d, e + 1, b)
         ELSE NormR(n \div 5, d * 2, e + 1, b))
    ELSE IF d % 5 = 0 THEN
        (IF d % 10 = 0 THEN NormR(n, d \div 10, e - 1, b)
         ELSE NormR(n * 2, d \div 5, e - 1, b))
    ELSE [k |-> "fin", num |-> n, den |-> d, e10 |-> e, kb |-> b]

\* the number (n/d) * 10^e * kBoltzmann^b, d # 0
Num(n, d, e, b) ==
    IF n = 0 THEN Zero
    ELSE LET g == GCD(Abs(n), Abs(d))
             s == IF d < 0 THEN -1 ELSE 1
         IN  NormR(s * (n \div g), Abs(d) \div g, e, b)

Int2Num(i) == Num(i, 1, 0, 0)
One == Int2Num(1)

IsFin(x) == x.k = "fin"
IsNaN(x) == x.k = "nan"
IsInf(x) == x.k = "inf"

\* -1, 0, 1; NaN has no sign (0 here, and every comparison with NaN is false)
Sign(x) == IF IsNaN(x) THEN 0 ELSE IF x.num < 0 THEN -1 ELSE IF x.num > 0 THEN 1 ELSE 0

Neg(x) == IF IsNaN(x) THEN NaN ELSE [x EXCEPT !.num = -x.num]

SInf(s) == IF s < 0 THEN NInf ELSE PInf

Mul(x, y) ==
    IF IsNaN(x) \/ IsNaN(y) THEN NaN
    ELSE IF IsInf(x) \/ IsInf(y)
         THEN IF Sign(x) = 0 \/ Sign(y) = 0 THEN NaN ELSE SInf(Sign(x) * Sign(y))
    ELSE LET g1 == GCD(Abs(x.num), y.den)
             g2 == GCD(Abs(y.num), x.den)
         IN  IF x.num = 0 \/ y.num = 0 THEN Zero
             ELSE Num((x.num \div g1) * (y.num \div g2),
                      (x.den \div g2) * (y.den \div g1),
                      x.e10 + y.e10, x.kb + y.kb)

\* 1/x for a finite x # 0
Inv(x) == Num(x.den * (IF x.num < 0 THEN -1 ELSE 1), Abs(x.num), -x.e10, -x.kb)

\* float64 division: x/0 is +-Infinity or NaN, never an exception
Div(x, y) ==
    IF IsNaN(x) \/ IsNaN(y) THEN NaN
    ELSE IF IsInf(y) THEN (IF IsInf(x) THEN NaN ELSE Zero)
    ELSE IF Sign(y) = 0
         THEN IF Sign(x) = 0 THEN NaN ELSE SInf(Sign(x))
    ELSE Mul(x, Inv(y))

\* sum of finite numbers with the same power of kBoltzmann
AddFin(x, y) ==
    IF x.num = 0 THEN y
    ELSE IF y.num = 0 THEN x
    ELSE LET e == IF x.e10 < y.e10 THEN x.e10 ELSE y.e10
             xn == x.num * IPow(10, x.e10 - e)
             yn == y.num * IPow(10, y.e10 - e)
         IN  Num(xn * y.den + yn * x.den, x.den * y.den, e, x.kb)

Add(x, y) ==
    IF IsNaN(x) \/ IsNaN(y) THEN NaN
    ELSE IF IsInf(x) THEN (IF IsInf(y) /\ Sign(x) # Sign(y) THEN NaN ELSE x)
    ELSE IF IsInf(y) THEN y
    ELSE AddFin(x, y)

Sub(x, y) == Add(x, Neg(y))

\* x < y as float64 compares: false when either is NaN
Less(x, y) == ~IsNaN(x) /\ ~IsNaN(y) /\ x # y /\ Sign(Sub(x, y)) < 0 /\ ~IsNaN(Sub(x, y))

\* an integer is (num/2^j) * 10^e with j <= e
IsInteger(x) ==
    /\ IsFin(x) /\ x.kb = 0
    /\ (x.num = 0 \/ (x.e10 >= 0 /\ IPow(10, x.e10) % x.den = 0))
IntOf(x) == x.num * (IPow(10, x.e10) \div x.den)

RECURSIVE PowNat(_, _)
PowNat(x, e) == IF e = 0 THEN One ELSE Mul(x, PowNat(x, e - 1))

\* numpy's float64 power x**y.  An integer exponent is exact.  With another
\* exponent a negative base gives NaN, and 0, 1 and Infinity are fixed
\* points; a base whose power is irrational is outside the inputs drawn.
Pow(x, y) ==
    IF IsFin(y) /\ Sign(y) = 0 THEN One
    ELSE IF x = One THEN One
    ELSE IF IsNaN(x) \/ IsNaN(y) THEN NaN
    ELSE IF IsInteger(y)
         THEN IF IntOf(y) > 0 THEN PowNat(x, IntOf(y))
              ELSE Div(One, PowNat(x, -IntOf(y)))
    ELSE IF IsInf(y) THEN NaN
    ELSE IF IsInf(x) THEN (IF Sign(y) > 0 THEN PInf ELSE Zero)
    ELSE IF Sign(x) = 0 THEN (IF Sign(y) > 0 THEN Zero ELSE PInf)
    ELSE NaN

\* whether Pow(x, y) is exact in this arithmetic
PowExact(x, y) ==
    \/ IsInteger(y) \/ IsNaN(x) \/ IsNaN(y) \/ x = One
    \/ (IsFin(y) /\ (IsInf(x) \/ Sign(x) <= 0))


(***************************************************************************)
(* Square roots: math.sqrt(x) for x >= 0 is kept as [sgn, sq], the value   *)
(* sgn * sqrt(sq).                                                         *)
(***************************************************************************)
\* math.sqrt raises ValueError ("math domain error") below zero
sqrtRaises(x) == ~IsNaN(x) /\ Sign(x) < 0

ValueError == [k |-> "ValueError"]

sqrt(x) ==
    IF sqrtRaises(x) THEN ValueError
    ELSE IF IsNaN(x) THEN NaN
    ELSE IF IsInf(x) THEN PInf
    ELSE [k |-> "root", sgn |-> Sign(x), sq |-> x]

\* c * s for a number c and a square root s (the exception of math.sqrt
\* leaves the expression)
MulRoot(c, s) ==
    IF s.k = "ValueError" THEN ValueError
    ELSE IF IsNaN(c) \/ s.k = "nan" THEN NaN
    ELSE IF s.k = "inf" THEN Mul(c, s)
    ELSE IF IsInf(c) THEN (IF s.sgn = 0 THEN NaN ELSE SInf(Sign(c) * s.sgn))
    ELSE [k |-> "root", sgn |-> Sign(c) * s.sgn,
          sq |-> Mul(Mul(c, c), s.sq)]

(***************************************************************************)
(* Python values                                                           *)
(***************************************************************************)
None == [k |-> "None", num |-> 0, den |-> 1, e10 |-> 0, kb |-> 0]
IsNone(x) == x.k = "None"

\* an argument given as TES: a Python int, or a value of another type
PyInt(i) == [int |-> TRUE, v |-> i]
PyFloat(i) == [int |-> FALSE, v |-> i]

(***************************************************************************)
(* Module constants                                                        *)
(***************************************************************************)
kBoltzmann == Num(1, 1, 0, 1)
Rshunt == Num(10, 1, -3, 0)
Rbias == Num(10, 1, 3, 0)

\* the literal 1e-6 (microamps to amps) and the literal 0.3 (reference bath)
Micro == Num(1, 1, -6, 0)
Tref == Num(3, 10, 0, 0)

(***************************************************************************)
(* Bounds of the model                                                     *)
(***************************************************************************)
\* longest list of datasets passed to an entry point
MaxLen == 3
\* number of channels the batch entry points iterate over (the literal 128
\* of make_TES_NEP_resultslist and make_TES_NEP_tex_report, scaled down)
MaxTES == 3
\* number of parameters of P_bath_function (K, T0, n)
NParams == 3

(***************************************************************************)
(* Curve datasets (qubicpack objects).  The class is not part of the       *)
(* sources analysed; a dataset is modelled by what the analysis reads of   *)
(* it: asic, NPIXELS, temperature, Rshunt, Rbias and, per channel, the     *)
(* turnover voltage (or None), the fitted turnover current of the filter   *)
(* metadata (or None when the key 'Iturnover' is absent), the selected     *)
(* range (istart, iend) (or NoRange when the selector yields none) and the *)
(* adjusted current in microamps.                                          *)
(***************************************************************************)
NoRange == <<>>

Chan(turn, fitI, rng, iadj) ==
    [turnover |-> turn, Iturnover |-> fitI, range |-> rng, Iadjusted |-> iadj]

NumSeq(s) == [i \in 1..Len(s) |-> Int2Num(s[i])]

\* channel data of dataset id for channel t (the pattern repeats every 3
\* channels)
ChanData(id, t) ==
    LET c == ((t - 1) % 3) + 1
    IN  CASE id = 1 /\ c = 1 -> Chan(Int2Num(3), Int2Num(5), <<1, 3>>, NumSeq(<<9, 4, 6, 2>>))
          [] id = 1 /\ c = 2 -> Chan(None, None, <<1, 3>>, NumSeq(<<9, 4, 6, 2>>))
          [] id = 1 /\ c = 3 -> Chan(Int2Num(4), None, <<1, 3>>, NumSeq(<<9, 4, 6, 2>>))
          [] id = 2 /\ c = 1 -> Chan(Int2Num(2), None, <<0, 2>>, NumSeq(<<7, 8, 3, 5>>))
          [] id = 2 /\ c = 2 -> Chan(Int2Num(3), Int2Num(6), <<0, 4>>, NumSeq(<<7, 8, 3, 5>>))
          [] id = 2 /\ c = 3 -> Chan(None, None, NoRange, NumSeq(<<7, 8, 3, 5>>))
          [] id = 3 /\ c = 1 -> Chan(Int2Num(4), Int2Num(7), <<0, 3>>, NumSeq(<<8, 6, 7, 1>>))
          [] id = 3 /\ c = 2 -> Chan(Int2Num(3), Int2Num(5), NoRange, NumSeq(<<8, 6, 7, 1>>))
          [] id = 3 /\ c = 3 -> Chan(Int2Num(2), None, <<2, 4>>, NumSeq(<<8, 6, 7, 1>>))
          [] id = 4 /\ c = 1 -> Chan(Int2Num(5), Int2Num(4), <<0, 2>>, NumSeq(<<6, 5>>))
          [] id = 4 /\ c = 2 -> Chan(Int2Num(2), None, <<0, 1>>, NumSeq(<<6, 5>>))
          [] id = 4 /\ c = 3 -> Chan(Int2Num(3), None, <<1, 2>>, NumSeq(<<6, 5>>))
          [] OTHER -> Chan(Int2Num(3), Int2Num(5), <<0, 2>>, NumSeq(<<4, 3>>))

Dataset(id, asic, npix, temp, rshunt, rbias) ==
    [kind |-> "qp", id |-> id, asic |-> asic, NPIXELS |-> npix,
     temperature |-> temp, Rshunt |-> rshunt, Rbias |-> rbias,
     chan |-> [t \in 1..npix |-> ChanData(id, t)]]

\* an object that is no qubicpack object (it has no attribute asic)
Other == [kind |-> "other", id |-> 0]

Datasets ==
    { Dataset(1, 1, MaxTES, Num(3, 10, 0, 0), Rshunt, Rbias),
      Dataset(2, 1, MaxTES, Num(35, 100, 0, 0), Num(20, 1, -3, 0), Rbias),
      Dataset(3, 1, MaxTES, Num(4, 10, 0, 0), Rshunt, Num(20, 1, 3, 0)),
      Dataset(4, 1, MaxTES - 1, Num(45, 100, 0, 0), Rshunt, Rbias),
      Dataset(5, 2, MaxTES, Num(3, 10, 0, 0), Rshunt, Rbias),
      Dataset(6, 1, MaxTES, Num(5, 10, 0, 0), Rshunt, Rbias) }

DatasetById(id) == CHOOSE d \in Datasets : d.id = id

SeqsUpTo(S, n) == UNION { [1..m -> S] : m \in 0..n }

\* the datasets of s are in the order of their ids (of their temperatures,
\* but for dataset 5)
InOrder(s) ==
    \A i \in 1..Len(s) : \A j \in (i + 1)..Len(s) :
        s[i].kind = "qp" /\ s[j].kind = "qp" => s[i].id < s[j].id

\* the values given as the argument qplist: lists of datasets in order,
\* with other objects anywhere among them, and a single dataset that is not
\* wrapped in a list
QplistArgs ==
    { [islist |-> TRUE, items |-> s] :
        s \in { u \in SeqsUpTo(Datasets \cup {Other}, MaxLen) : InOrder(u) } }
    \cup { [islist |-> FALSE, items |-> <<DatasetById(1)>>] }

\* the values given as the argument TES
TESArgs == { PyInt(i) : i \in 0..(MaxTES + 1) } \cup { PyFloat(1) }

(***************************************************************************)
(* The dataset's methods, as the analysis calls them                       *)
(***************************************************************************)
\* the data of channel TES.  The dataset keeps them in arrays indexed by
\* TES-1; an index outside them is taken around the array, as Python takes
\* the index -1 of channel 0
ChanOf(go, TES) == go.chan[((TES.v - 1) % go.NPIXELS) + 1]

turnover(go, TES) == ChanOf(go, TES).turnover
filterinfo(go, TES) == ChanOf(go, TES)
selected_iv_curve(go, TES) == ChanOf(go, TES).range
adjusted_iv(go, TES) == ChanOf(go, TES).Iadjusted

(***************************************************************************)
(* verify_temperature_arguments                                            *)
(***************************************************************************)
\* a variant of InvalidTES without the test TES<1
InvalidTESAbove(TES, go) == TES.v > go.NPIXELS

\* TES<1 or TES>go.NPIXELS
InvalidTES(TES, go) == TES.v < 1 \/ TES.v > go.NPIXELS

RECURSIVE verify_loop(_, _, _, _)
verify_loop(items, i, TES, asic) ==
    IF i > Len(items) THEN "True"
    ELSE LET go == items[i]
         IN  IF go.kind # "qp" THEN "False"
             ELSE IF InvalidTES(TES, go) THEN "False"
             ELSE IF go.asic # asic THEN "False"
             ELSE verify_loop(items, i + 1, TES, asic)

\* "True", "False", or the exception raised
verify_temperature_arguments(qplist, TES) ==
    IF ~TES.int THEN "False"
    ELSE IF ~qplist.islist THEN "False"
    ELSE IF Len(qplist.items) = 0 THEN "IndexError"
    ELSE IF qplist.items[1].kind # "qp" THEN "AttributeError"
    ELSE verify_loop(qplist.items, 1, TES, qplist.items[1].asic)

(***************************************************************************)
(* calculate_TES_NEP: the loop over the datasets                           *)
(***************************************************************************)
\* the Python slice s[istart:iend] of a 0-based array
PySlice(s, istart, iend) ==
    SubSeq(s, istart + 1, IF iend > Len(s) THEN Len(s) ELSE iend)

RECURSIVE SeqMin(_)
\* I.min() of a non-empty array
SeqMin(s) ==
    IF Len(s) = 1 THEN s[1]
    ELSE LET m == SeqMin(Tail(s))
         IN  IF Less(s[1], m) THEN s[1] ELSE m

\* Iturnover in amps: the fitted value of the filter metadata when the key
\* is there, else the minimum of the adjusted current in the selected range
Iturnover_amps(go, TES) ==
    LET rng == selected_iv_curve(go, TES)
        I == PySlice(adjusted_iv(go, TES), rng[1], rng[2])
    IN  IF ~IsNone(filterinfo(go, TES).Iturnover)
        THEN Mul(Micro, filterinfo(go, TES).Iturnover)
        ELSE Mul(Micro, SeqMin(I))

\* a variant of Vtes_turnover with the resistances of the module (lines
\* 28-29) in the place of the dataset's
Vtes_turnover_module(go, TES, Iturnover) ==
    Mul(Rshunt, Sub(Div(turnover(go, TES), Rbias), Iturnover))

\* Vtes_turnover=go.Rshunt*(go.turnover(TES)/go.Rbias-Iturnover)
Vtes_turnover(go, TES, Iturnover) ==
    Mul(go.Rshunt, Sub(Div(turnover(go, TES), go.Rbias), Iturnover))

\* the power appended to P
Pturnover(go, TES) ==
    LET Iturnover == Iturnover_amps(go, TES)
    IN  Mul(Iturnover, Vtes_turnover(go, TES, Iturnover))

\* a variant of SkipDataset without the 'continue': no dataset is left
NeverSkip(go, TES) == FALSE

\* whether the dataset is left by the 'continue' of the loop
SkipDataset(go, TES) == IsNone(turnover(go, TES))

\* the exception one iteration raises, or "none": unpacking the selector's
\* result fails on None, and min() fails on an empty array
LoopException(go, TES) ==
    IF SkipDataset(go, TES) THEN "none"
    ELSE IF selected_iv_curve(go, TES) = NoRange THEN "TypeError"
    ELSE IF /\ IsNone(filterinfo(go, TES).Iturnover)
            /\ Len(PySlice(adjusted_iv(go, TES), selected_iv_curve(go, TES)[1],
                           selected_iv_curve(go, TES)[2])) = 0
         THEN "ValueError"
    ELSE "none"

\* one iteration of the loop on the lists [P, T, all_T] (exc: the exception
\* raised, all_T already appended to)
loop_body(st, go, TES) ==
    IF SkipDataset(go, TES)
    THEN [st EXCEPT !.all_T = Append(@, go.temperature)]
    ELSE IF LoopException(go, TES) # "none"
         THEN [st EXCEPT !.all_T = Append(@, go.temperature),
                         !.exc = LoopException(go, TES)]
    ELSE [st EXCEPT !.all_T = Append(@, go.temperature),
                    !.P = Append(@, Pturnover(go, TES)),
                    !.T = Append(@, go.temperature)]

EmptyLists == [P |-> <<>>, T |-> <<>>, all_T |-> <<>>, exc |-> "none"]

RECURSIVE loop_from(_, _, _, _)
\* the whole loop, from the dataset after position i, to its end or to the
\* first exception
loop_from(st, items, i, TES) ==
    IF i >= Len(items) \/ st.exc # "none" THEN st
    ELSE loop_from(loop_body(st, items[i + 1], TES), items, i + 1, TES)

(***************************************************************************)
(* calculate_TES_NEP: the fit and the values derived from it               *)
(***************************************************************************)
NoFit == [ok |-> FALSE, K |-> None, T0 |-> None, n |-> None]
Fit(K, T0, n) == [ok |-> TRUE, K |-> K, T0 |-> T0, n |-> n]

\* the values the fitted parameters are drawn from
FitK == { Num(1, 1, -10, 0), Num(-1, 1, -10, 0), Zero }
FitT0 == { Num(45, 100, 0, 0), Num(3, 10, 0, 0), Num(2, 10, 0, 0), Zero,
           Num(-1, 2, 0, 0), Num(-3, 10, 0, 0) }
FitN == { Int2Num(3), Int2Num(2), Int2Num(1), Int2Num(-1), Num(3, 2, 0, 0) }

\* a variant of G_of with the exponent n in the place of n-1
G_of_power_n(K, T0, n) == Mul(Mul(n, K), Pow(T0, n))

\* G=n*K*(T0**(n-1))
G_of(K, T0, n) == Mul(Mul(n, K), Pow(T0, Sub(n, One)))

\* Tratio=0.3/T0
Tratio_of(T0) == Div(Tref, T0)

\* gamma=(n/(2*n+1)) * (1-Tratio**(2*n+1))/(1-Tratio**n)
gamma_of(T0, n) ==
    LET Tratio == Tratio_of(T0)
        n21 == Add(Mul(Int2Num(2), n), One)
    IN  Div(Mul(Div(n, n21), Sub(One, Pow(Tratio, n21))),
            Sub(One, Pow(Tratio, n)))

\* discr=gamma*kBoltzmann*G
discr_of(K, T0, n) == Mul(Mul(gamma_of(T0, n), kBoltzmann), G_of(K, T0, n))

\* a variant of NEP_of whose first branch has no minus sign before 2*T0
NEP_of_unsigned(T0, discr) ==
    IF Less(discr, Zero)
    THEN MulRoot(Mul(Int2Num(2), T0), sqrt(Neg(discr)))
    ELSE MulRoot(Mul(Int2Num(2), T0), sqrt(discr))

\* the branch on discr<0.0
NEP_of(T0, discr) ==
    IF Less(discr, Zero)
    THEN MulRoot(Mul(Int2Num(-2), T0), sqrt(Neg(discr)))
    ELSE MulRoot(Mul(Int2Num(2), T0), sqrt(discr))

\* the triples whose derived values are exact in this arithmetic
ExactTriple(K, T0, n) ==
    /\ PowExact(T0, Sub(n, One))
    /\ PowExact(Tratio_of(T0), Add(Mul(Int2Num(2), n), One))
    /\ PowExact(Tratio_of(T0), n)

AllTriples ==
    { Fit(t[1], t[2], t[3]) :
        t \in { u \in FitK \X FitT0 \X FitN : ExactTriple(u[1], u[2], u[3]) } }

\* the triples a fit inside a whole run converges to: a physical one, one
\* with K < 0, two with T0 < 0, one with T0 = 0.3 exactly
FitTriples ==
    { Fit(Num(1, 1, -10, 0), Num(45, 100, 0, 0), Int2Num(3)),
      Fit(Num(-1, 1, -10, 0), Num(45, 100, 0, 0), Int2Num(3)),
      Fit(Num(1, 1, -10, 0), Num(-1, 2, 0, 0), Int2Num(2)),
      Fit(Num(-1, 1, -10, 0), Num(-1, 2, 0, 0), Int2Num(2)),
      Fit(Num(1, 1, -10, 0), Num(3, 10, 0, 0), Int2Num(3)) }

\* what curve_fit(P_bath_function,T,P) inside try/except leaves in
\* temperature_fit: with fewer points than parameters the fit raises, and
\* with more it converges to some triple or raises
curve_fit(T, P) ==
    IF Len(T) < NParams THEN { NoFit } ELSE { NoFit } \cup FitTriples

\* a variant of FitValues in which nothing is derived from the fit: G,
\* gamma and NEP stay None whatever the fit gave
FitValuesNotDerived(fit) ==
    [K |-> fit.K, T0 |-> fit.T0, n |-> fit.n,
     G |-> None, gamma |-> None, NEP |-> None]

\* the six values of the record that depend on the fit
FitValues(fit) ==
    IF fit.ok
    THEN [K |-> fit.K, T0 |-> fit.T0, n |-> fit.n,
          G |-> G_of(fit.K, fit.T0, fit.n),
          gamma |-> gamma_of(fit.T0, fit.n),
          NEP |-> NEP_of(fit.T0, discr_of(fit.K, fit.T0, fit.n))]
    ELSE [K |-> None, T0 |-> None, n |-> None,
          G |-> None, gamma |-> None, NEP |-> None]

\* the record returned: the lists of the loop and the values v of the fit
RecordOf(asic, TES, st, v) ==
    [kind |-> "record", TES |-> TES.v, ASIC |-> asic,
     P |-> st.P, T |-> st.T, all_T |-> st.all_T,
     K |-> v.K, T0 |-> v.T0, n |-> v.n,
     G |-> v.G, gamma |-> v.gamma, NEP |-> v.NEP]

Record(qplist, TES, st, fit) ==
    RecordOf(qplist.items[1].asic, TES, st, FitValues(fit))

PyNone == [kind |-> "None"]
Unset == [kind |-> "unset"]

(***************************************************************************)
(* State                                                                   *)
(***************************************************************************)
VARIABLES
    entry,            \* the entry point called, "none" before the call
    qplist,           \* its argument qplist
    TES,              \* its argument TES
    pc,               \* "idle", "loop", "returned", "raised", ...
    idx,              \* calculate_TES_NEP: datasets visited by the loop
    lists,            \* calculate_TES_NEP: the lists P, T and all_T
    temperature_fit,  \* calculate_TES_NEP: the result of the fit
    nfits,            \* calculate_TES_NEP: calls of curve_fit made
    ret,              \* the value returned
    exc,              \* the exception that left the entry point, or "none"
    reads,            \* <<dataset id, channel>> of every reading of a curve
    results,          \* batch: the list of results
    bTES              \* batch: the loop variable TES

vars == <<entry, qplist, TES, pc, idx, lists, temperature_fit, nfits, ret,
          exc, reads, results, bTES>>

NoTES == PyFloat(0)

Init ==
    /\ qplist \in QplistArgs
    /\ entry = "none"
    /\ TES = NoTES
    /\ pc = "idle"
    /\ idx = 0
    /\ lists = EmptyLists
    /\ temperature_fit = NoFit
    /\ nfits = 0
    /\ ret = Unset
    /\ exc = "none"
    /\ reads = {}
    /\ results = <<>>
    /\ bTES = 0

\* the entry point returns None
ReturnNone ==
    /\ pc' = "returned"
    /\ ret' = PyNone
    /\ exc' = "none"

\* the exception e leaves the entry point
Raise(e) ==
    /\ pc' = "raised"
    /\ exc' = e
    /\ ret' = Unset

(***************************************************************************)
(* calculate_TES_NEP(qplist,TES), step by step                             *)
(***************************************************************************)
\* the call, up to the start of the loop
calculate_TES_NEP_call(t) ==
    /\ pc = "idle"
    /\ entry' = "calculate_TES_NEP"
    /\ TES' = t
    /\ \E v \in { verify_temperature_arguments(qplist, t) } :
           CASE v = "True" -> /\ pc' = "loop"
                              /\ UNCHANGED <<ret, exc>>
             [] v = "False" -> ReturnNone
             [] OTHER -> Raise(v)
    /\ UNCHANGED <<qplist, idx, lists, temperature_fit, nfits, reads,
                   results, bTES>>

\* one iteration of 'for go in qplist'
calculate_TES_NEP_loop ==
    /\ pc = "loop"
    /\ entry = "calculate_TES_NEP"
    /\ idx < Len(qplist.items)
    /\ \E st \in { loop_body(lists, qplist.items[idx + 1], TES) } :
           /\ lists' = st
           /\ reads' = reads \cup {<<qplist.items[idx + 1].id, TES.v>>}
           /\ idx' = idx + 1
           /\ IF st.exc # "none"
              THEN Raise(st.exc)
              ELSE UNCHANGED <<pc, ret, exc>>
    /\ UNCHANGED <<entry, qplist, TES, temperature_fit, nfits, results, bTES>>

\* try: temperature_fit=curve_fit(P_bath_function,T,P) except: None
calculate_TES_NEP_fit ==
    /\ pc = "loop"
    /\ entry = "calculate_TES_NEP"
    /\ idx = Len(qplist.items)
    /\ \E fit \in curve_fit(lists.T, lists.P) :
          /\ temperature_fit' = fit
          /\ nfits' = nfits + 1
          /\ pc' = "fitted"
    /\ UNCHANGED <<entry, qplist, TES, idx, lists, ret, exc, reads, results,
                   bTES>>

\* the values derived from the fit, and the return of the record
calculate_TES_NEP_derive ==
    /\ pc = "fitted"
    /\ entry = "calculate_TES_NEP"
    /\ \E r \in { Record(qplist, TES, lists, temperature_fit) } :
           IF r.NEP.k = "ValueError"
           THEN Raise("ValueError")
           ELSE /\ pc' = "returned"
                /\ ret' = r
                /\ exc' = "none"
    /\ UNCHANGED <<entry, qplist, TES, idx, lists, temperature_fit, nfits,
                   reads, results, bTES>>

(***************************************************************************)
(* calculate_TES_NEP as one call, for the entry points that call it        *)
(***************************************************************************)
\* the loop over the whole list
Loop(ql, t) == loop_from(EmptyLists, ql.items, 0, t)

\* the readings of curves a loop that left the lists st has made: one
\* dataset after the other, up to the end or to the dataset that raises
ReadsOf(ql, t, st) == { <<ql.items[i].id, t.v>> : i \in 1..Len(st.all_T) }

LoopReads(ql, t) == ReadsOf(ql, t, Loop(ql, t))

\* the results the fit may give after the validation v and the loop st
FitsAfter(v, st) ==
    IF v = "True" /\ st.exc = "none" THEN curve_fit(st.T, st.P) ELSE { NoFit }

\* the results the fit of the call may give
Fits(ql, t) == FitsAfter(verify_temperature_arguments(ql, t), Loop(ql, t))

\* the end of the call: the record r is returned, unless math.sqrt raised
Returned(r, rd) ==
    IF r.NEP.k = "ValueError"
    THEN [exc |-> "ValueError", ret |-> Unset, reads |-> rd]
    ELSE [exc |-> "none", ret |-> r, reads |-> rd]

\* the call after the validation v and the loop st
Outcome(v, st, ql, t, fit) ==
    IF v = "False" THEN [exc |-> "none", ret |-> PyNone, reads |-> {}]
    ELSE IF v # "True" THEN [exc |-> v, ret |-> Unset, reads |-> {}]
    ELSE IF st.exc # "none"
         THEN [exc |-> st.exc, ret |-> Unset, reads |-> ReadsOf(ql, t, st)]
    ELSE Returned(Record(ql, t, st, fit), ReadsOf(ql, t, st))

\* [exc, ret, reads] of calculate_TES_NEP(ql, t) whose fit gives fit
calculate_TES_NEP(ql, t, fit) ==
    Outcome(verify_temperature_arguments(ql, t), Loop(ql, t), ql, t, fit)

(***************************************************************************)
(* The plotting entry points.  What they draw is not modelled: only the    *)
(* validation, the readings of the datasets and the value returned.        *)
(***************************************************************************)
\* plot_TES_NEP(qplist,TES): the result of calculate_TES_NEP, or None
plot_TES_NEP(ql, t, fit) == calculate_TES_NEP(ql, t, fit)

\* the outcome of an entry point that read nothing and returned None
NoOutcome == [exc |-> "none", ret |-> PyNone, reads |-> {}]

RECURSIVE curves_from(_, _, _, _)
\* the loop of plot_TES_temperature_curves from the dataset after position
\* i: istart,iend=go.selected_iv_curve(TES) fails on None
curves_from(o, items, i, t) ==
    IF i >= Len(items) \/ o.exc # "none" THEN o
    ELSE IF selected_iv_curve(items[i + 1], t) = NoRange
         THEN [o EXCEPT !.reads = @ \cup {<<items[i + 1].id, t.v>>},
                        !.exc = "TypeError"]
    ELSE curves_from([o EXCEPT !.reads = @ \cup {<<items[i + 1].id, t.v>>}],
                     items, i + 1, t)

\* [exc, ret, reads] of plot_TES_temperature_curves(ql, t)
CurvesOutcome(v, o) ==
    IF v = "False" THEN NoOutcome
    ELSE IF v # "True" THEN [NoOutcome EXCEPT !.exc = v, !.ret = Unset]
    ELSE IF o.exc # "none" THEN [o EXCEPT !.ret = Unset] ELSE o

plot_TES_temperature_curves(ql, t) ==
    CurvesOutcome(verify_temperature_arguments(ql, t),
                  curves_from(NoOutcome, ql.items, 0, t))

\* [exc, ret, reads] of plot_TES_turnover_temperature(ql, t): go.turnover(TES)
\* is read of every dataset
TurnoverOutcome(v, ql, t) ==
    IF v = "False" THEN NoOutcome
    ELSE IF v # "True" THEN [NoOutcome EXCEPT !.exc = v, !.ret = Unset]
    ELSE [NoOutcome EXCEPT
             !.reads = { <<ql.items[i].id, t.v>> : i \in 1..Len(ql.items) }]

plot_TES_turnover_temperature(ql, t) ==
    TurnoverOutcome(verify_temperature_arguments(ql, t), ql, t)

\* an entry point called and left in one step, with the outcome o
CallOutcome(name, t, o) ==
    /\ pc = "idle"
    /\ entry' = name
    /\ TES' = t
    /\ reads' = reads \cup o.reads
    /\ IF o.exc # "none"
       THEN Raise(o.exc)
       ELSE /\ pc' = "returned"
            /\ ret' = o.ret
            /\ exc' = "none"
    /\ UNCHANGED <<qplist, idx, lists, temperature_fit, nfits, results, bTES>>

plot_TES_NEP_call(t) ==
    \E fit \in Fits(qplist, t) :
        CallOutcome("plot_TES_NEP", t, plot_TES_NEP(qplist, t, fit))

plot_TES_temperature_curves_call(t) ==
    CallOutcome("plot_TES_temperature_curves", t,
                plot_TES_temperature_curves(qplist, t))

plot_TES_turnover_temperature_call(t) ==
    CallOutcome("plot_TES_turnover_temperature", t,
                plot_TES_turnover_temperature(qplist, t))

(***************************************************************************)
(* The batch entry points: make_TES_NEP_resultslist, plot_NEP_histogram    *)
(* and make_TES_NEP_tex_report (called with NEPresults=None).  The loop    *)
(* variable of 1+np.arange(128) is taken to pass isinstance(TES,int), as   *)
(* numpy's integers do where Python's int is the C long.                   *)
(***************************************************************************)
BatchEntries ==
    { "make_TES_NEP_resultslist", "plot_NEP_histogram", "make_TES_NEP_tex_report" }

\* the call of a batch entry point: verify_temperature_arguments(qplist,1),
\* then (directly or through NEPresults=None) the loop of
\* make_TES_NEP_resultslist
batch_call(name) ==
    /\ pc = "idle"
    /\ name \in BatchEntries
    /\ entry' = name
    /\ \E v \in { verify_temperature_arguments(qplist, PyInt(1)) } :
           CASE v = "True" -> /\ pc' = "resultslist"
                              /\ bTES' = 1
                              /\ UNCHANGED <<ret, exc>>
             [] v = "False" -> ReturnNone /\ UNCHANGED bTES
             [] OTHER -> Raise(v) /\ UNCHANGED bTES
    /\ UNCHANGED <<qplist, TES, idx, lists, temperature_fit, nfits, reads,
                   results>>

\* one iteration of 'for TES in 1+np.arange(128)'
make_TES_NEP_resultslist_loop ==
    /\ pc = "resultslist"
    /\ bTES <= MaxTES
    /\ \E fit \in Fits(qplist, PyInt(bTES)) :
          \E o \in { calculate_TES_NEP(qplist, PyInt(bTES), fit) } :
              /\ reads' = reads \cup o.reads
              /\ IF o.exc # "none"
                 THEN Raise(o.exc) /\ UNCHANGED <<results, bTES>>
                 ELSE /\ results' = Append(results, o.ret)
                      /\ bTES' = bTES + 1
                      /\ UNCHANGED <<pc, ret, exc>>
    /\ UNCHANGED <<entry, qplist, TES, idx, lists, temperature_fit, nfits>>

\* the end of the loop: the list is returned to the caller
make_TES_NEP_resultslist_return ==
    /\ pc = "resultslist"
    /\ bTES > MaxTES
    /\ IF entry = "make_TES_NEP_resultslist"
       THEN /\ pc' = "returned"
            /\ ret' = [kind |-> "list", items |-> results]
       ELSE /\ pc' = "NEPresults"
            /\ ret' = ret
    /\ UNCHANGED <<entry, qplist, TES, idx, lists, temperature_fit, nfits,
                   exc, reads, results, bTES>>

\* whether 'for res in NEPresults: NEP=res['NEP']' fails: None has no items
ResultsRaise(rs) == \E i \in 1..Len(rs) : rs[i].kind = "None"

\* plot_NEP_histogram after the results: the loop over NEPresults
plot_NEP_histogram_results ==
    /\ pc = "NEPresults"
    /\ entry = "plot_NEP_histogram"
    /\ IF ResultsRaise(results) THEN Raise("TypeError") ELSE ReturnNone
    /\ UNCHANGED <<entry, qplist, TES, idx, lists, temperature_fit, nfits,
                   reads, results, bTES>>

RECURSIVE go300_from(_, _, _)
\* the last dataset whose temperature is 0.3, else qplist[0]
go300_from(items, i, found) ==
    IF i > Len(items) THEN found
    ELSE go300_from(items, i + 1,
                    IF items[i].temperature = Tref THEN items[i] ELSE found)

go300_of(ql) == go300_from(ql.items, 1, ql.items[1])

\* make_TES_NEP_tex_report after the results: the loop over NEPresults and
\* the table, whose rows read go300.iv_tex_table_entry(TES)
make_TES_NEP_tex_report_results ==
    /\ pc = "NEPresults"
    /\ entry = "make_TES_NEP_tex_report"
    /\ IF ResultsRaise(results)
       THEN Raise("TypeError") /\ UNCHANGED <<reads, bTES>>
       ELSE /\ reads' = reads \cup
                  { <<go300_of(qplist).id, results[i].TES>> :
                      i \in { j \in 1..Len(results) : ~IsNone(results[j].NEP) } }
            /\ pc' = "texplots"
            /\ bTES' = 1
            /\ UNCHANGED <<ret, exc>>
    /\ UNCHANGED <<entry, qplist, TES, idx, lists, temperature_fit, nfits,
                   results>>

\* one plot of 'for TES in np.arange(1,129)': it is made when its png is
\* not there (exists: what os.path.exists answers), with the outcome o, and
\* the report goes on at place next
report_plot(at, exists, o, next) ==
    /\ pc = at
    /\ bTES <= MaxTES
    /\ IF exists
       THEN /\ pc' = next
            /\ UNCHANGED <<ret, exc, reads>>
       ELSE /\ reads' = reads \cup o.reads
            /\ IF o.exc # "none"
               THEN Raise(o.exc)
               ELSE /\ pc' = next
                    /\ UNCHANGED <<ret, exc>>
    /\ bTES' = IF pc' = "texplots" THEN bTES + 1 ELSE bTES
    /\ UNCHANGED <<entry, qplist, TES, idx, lists, temperature_fit, nfits,
                   results>>

\* plot_TES_temperature_curves(qplist,TES,plot='I',xwin=False)
make_TES_NEP_tex_report_plot_I ==
    \E exists \in BOOLEAN :
        report_plot("texplots", exists,
                    plot_TES_temperature_curves(qplist, PyInt(bTES)), "texplots_P")

\* plot_TES_temperature_curves(qplist,TES,plot='P',xwin=False)
make_TES_NEP_tex_report_plot_P ==
    \E exists \in BOOLEAN :
        report_plot("texplots_P", exists,
                    plot_TES_temperature_curves(qplist, PyInt(bTES)), "texplots_NEP")

\* plot_TES_NEP(qplist,TES,xwin=False)
make_TES_NEP_tex_report_plot_NEP ==
    \E exists \in BOOLEAN, fit \in Fits(qplist, PyInt(bTES)) :
        report_plot("texplots_NEP", exists,
                    plot_TES_NEP(qplist, PyInt(bTES), fit), "texplots")

\* the end of the report: the name of the file is returned
make_TES_NEP_tex_report_return ==
    /\ pc = "texplots"
    /\ bTES > MaxTES
    /\ pc' = "returned"
    /\ ret' = [kind |-> "str"]
    /\ UNCHANGED <<entry, qplist, TES, idx, lists, temperature_fit, nfits,
                   exc, reads, results, bTES>>

(***************************************************************************)
(* Specifications                                                          *)
(***************************************************************************)
Next ==
    \/ \E t \in TESArgs : calculate_TES_NEP_call(t)
    \/ calculate_TES_NEP_loop
    \/ calculate_TES_NEP_fit
    \/ calculate_TES_NEP_derive
    \/ \E t \in TESArgs : plot_TES_NEP_call(t)
    \/ \E t \in TESArgs : plot_TES_temperature_curves_call(t)
    \/ \E t \in TESArgs : plot_TES_turnover_temperature_call(t)
    \/ \E name \in BatchEntries : batch_call(name)
    \/ make_TES_NEP_resultslist_loop
    \/ make_TES_NEP_resultslist_return
    \/ plot_NEP_histogram_results
    \/ make_TES_NEP_tex_report_results
    \/ make_TES_NEP_tex_report_plot_I
    \/ make_TES_NEP_tex_report_plot_P
    \/ make_TES_NEP_tex_report_plot_NEP
    \/ make_TES_NEP_tex_report_return

Spec == Init /\ [][Next]_vars

\* The estimator alone: a run that is past its fit, on a list of three
\* datasets with a turnover for channel 1, with any of the triples as the
\* fit's result
FittedLists ==
    { [islist |-> TRUE,
       items |-> <<DatasetById(1), DatasetById(2), DatasetById(3)>>],
      [islist |-> TRUE,
       items |-> <<DatasetById(2), DatasetById(3), DatasetById(6)>>] }

InitNEP ==
    /\ qplist \in FittedLists
    /\ entry = "calculate_TES_NEP"
    /\ TES = PyInt(1)
    /\ pc = "fitted"
    /\ idx = Len(qplist.items)
    /\ lists = Loop(qplist, PyInt(1))
    /\ temperature_fit \in AllTriples \cup { NoFit }
    /\ nfits = 1
    /\ ret = Unset
    /\ exc = "none"
    /\ reads = LoopReads(qplist, PyInt(1))
    /\ results = <<>>
    /\ bTES = 0

SpecNEP == InitNEP /\ [][calculate_TES_NEP_derive]_vars

(***************************************************************************)
(* One run of calculate_TES_NEP, step by step.  The interpreter keeps      *)
(* executing the function until it returns or raises: a step that is       *)
(* enabled is eventually taken.                                            *)
(***************************************************************************)
NextRun ==
    \/ \E t \in TESArgs : calculate_TES_NEP_call(t)
    \/ calculate_TES_NEP_loop
    \/ calculate_TES_NEP_fit
    \/ calculate_TES_NEP_derive

\* the states in which an iteration of the loop, and the derivation, can
\* be taken: the guards of calculate_TES_NEP_loop and _derive
LoopEnabled ==
    pc = "loop" /\ entry = "calculate_TES_NEP" /\ idx < Len(qplist.items)

DeriveEnabled == pc = "fitted" /\ entry = "calculate_TES_NEP"

\* weak fairness of each step.  WF_vars(A) is
\* []<>~ENABLED <<A>>_vars \/ []<><<A>>_vars; it is written out for the
\* loop and the derivation, with their guards for ENABLED (both steps
\* change idx or pc whenever their guard holds).
FairRun ==
    /\ WF_vars(\E t \in TESArgs : calculate_TES_NEP_call(t))
    /\ []<>~LoopEnabled \/ []<><<calculate_TES_NEP_loop>>_vars
    /\ WF_vars(calculate_TES_NEP_fit)
    /\ []<>~DeriveEnabled \/ []<><<calculate_TES_NEP_derive>>_vars

SpecRun == Init /\ [][NextRun]_vars /\ FairRun

(***************************************************************************)
(* Repeated calls of calculate_TES_NEP on the same list: a call for a      *)
(* channel, possibly a call for another channel, and the call for the      *)
(* first channel again.  ret keeps what the first call returned and        *)
(* results what the last one did.                                          *)
(***************************************************************************)
\* a variant of DatasetsAfter in which the call leaves every dataset with
\* its Rshunt doubled
DatasetsAfterRescaled(ql, t) ==
    [ql EXCEPT !.items =
        [i \in 1..Len(ql.items) |->
            IF ql.items[i].kind = "qp"
            THEN [ql.items[i] EXCEPT !.Rshunt = Add(@, @)]
            ELSE ql.items[i]]]

\* the list and its datasets after calculate_TES_NEP(ql, t): the function
\* reads go.temperature, go.Rshunt, go.Rbias and calls the dataset's
\* methods, and assigns to no attribute of go, to no element of qplist and
\* to no name of the module
DatasetsAfter(ql, t) == ql

\* the first call
calculate_TES_NEP_first(t) ==
    /\ pc = "idle"
    /\ entry' = "calculate_TES_NEP"
    /\ TES' = t
    /\ qplist' = DatasetsAfter(qplist, t)
    /\ \E fit \in Fits(qplist, t) :
          \E o \in { calculate_TES_NEP(qplist, t, fit) } :
              /\ reads' = reads \cup o.reads
              /\ IF o.exc # "none"
                 THEN Raise(o.exc)
                 ELSE /\ pc' = "called"
                      /\ ret' = o.ret
                      /\ exc' = "none"
    /\ UNCHANGED <<idx, lists, temperature_fit, nfits, results, bTES>>

\* a call for another channel, whose result is dropped
calculate_TES_NEP_other(t) ==
    /\ pc = "called"
    /\ t # TES
    /\ qplist' = DatasetsAfter(qplist, t)
    /\ \E fit \in Fits(qplist, t) :
          \E o \in { calculate_TES_NEP(qplist, t, fit) } :
              /\ reads' = reads \cup o.reads
              /\ IF o.exc # "none"
                 THEN Raise(o.exc)
                 ELSE /\ pc' = "between"
                      /\ UNCHANGED <<ret, exc>>
    /\ UNCHANGED <<entry, TES, idx, lists, temperature_fit, nfits, results,
                   bTES>>

\* the call for the first channel again
calculate_TES_NEP_again ==
    /\ pc \in {"called", "between"}
    /\ qplist' = DatasetsAfter(qplist, TES)
    /\ \E fit \in Fits(qplist, TES) :
          \E o \in { calculate_TES_NEP(qplist, TES, fit) } :
              /\ reads' = reads \cup o.reads
              /\ results' = <<o.ret>>
              /\ exc' = o.exc
    /\ pc' = "repeated"
    /\ UNCHANGED <<entry, TES, idx, lists, temperature_fit, nfits, ret, bTES>>

NextRepeat ==
    \/ \E t \in TESArgs : calculate_TES_NEP_first(t)
    \/ \E t \in TESArgs : calculate_TES_NEP_other(t)
    \/ calculate_TES_NEP_again

SpecRepeat == Init /\ [][NextRepeat]_vars

(***************************************************************************)
(* Properties                                                              *)
(***************************************************************************)
AllNone(r) ==
    /\ IsNone(r.K) /\ IsNone(r.T0) /\ IsNone(r.n)
    /\ IsNone(r.G) /\ IsNone(r.gamma) /\ IsNone(r.NEP)

AllSet(r) ==
    /\ ~IsNone(r.K) /\ ~IsNone(r.T0) /\ ~IsNone(r.n)
    /\ ~IsNone(r.G) /\ ~IsNone(r.gamma) /\ ~IsNone(r.NEP)

\* the arguments are a list of datasets of one ASIC and a channel all of them
\* have
ValidCall(ql, t) ==
    /\ ql.islist
    /\ t.int
    /\ \A i \in 1..Len(ql.items) :
          /\ ql.items[i].kind = "qp"
          /\ ql.items[i].asic = ql.items[1].asic
          /\ t.v \in 1..ql.items[i].NPIXELS

\* the positions of the datasets of a valid call that have a turnover
WithTurnover(ql, t) ==
    { i \in 1..Len(ql.items) : ~IsNone(ChanOf(ql.items[i], t).turnover) }

\* C1: every record returned by calculate_TES_NEP (to its caller, or into
\* the list of a batch) has K, T0, n, G, gamma and NEP either all set or all
\* None, and NEP is set exactly when the fit gave a result.
C1_NEPDefinedIffFitDefined ==
    /\ ret.kind = "record" => (AllNone(ret) \/ AllSet(ret))
    /\ \A i \in 1..Len(results) :
          results[i].kind = "record" => (AllNone(results[i]) \/ AllSet(results[i]))
    /\ (entry = "calculate_TES_NEP" /\ pc = "returned" /\ ret.kind = "record")
          => (temperature_fit.ok <=> ~IsNone(ret.NEP))

\* a batch has produced a record with a fit and a record without
C1_Witness ==
    \E i, j \in 1..Len(results) :
        /\ results[i].kind = "record" /\ AllSet(results[i])
        /\ results[j].kind = "record" /\ AllNone(results[j])

\* C2: a valid call of calculate_TES_NEP on a list in which fewer than 3
\* datasets have a turnover for the channel ends by returning a record whose
\* six fit values are None, and no exception leaves the call.
C2_FewSamplesNoFit ==
    ( /\ entry = "calculate_TES_NEP"
      /\ pc \in {"returned", "raised"}
      /\ ValidCall(qplist, TES)
      /\ Cardinality(WithTurnover(qplist, TES)) < NParams )
    => (pc = "returned" /\ ret.kind = "record" /\ AllNone(ret))

C4_BatchRunsToLastChannel ==
    ( /\ entry \in BatchEntries
      /\ pc \in {"returned", "raised"}
      /\ Len(qplist.items) >= 1
      /\ ValidCall(qplist, PyInt(1)) )
    => (pc = "returned" /\ Len(results) = MaxTES)

\* the datasets of items that have a turnover for channel t, in their order
Turned(items, t) ==
    SelectSeq(items, LAMBDA go : ~IsNone(ChanOf(go, t).turnover))

\* the lists st are those of the datasets items for channel t
ListsAgree(st, items, t) ==
    /\ st.all_T = [i \in 1..Len(items) |-> items[i].temperature]
    /\ st.T = [i \in 1..Len(Turned(items, t)) |-> Turned(items, t)[i].temperature]
    /\ Len(st.P) = Len(st.T)
    /\ \A i \in 1..Len(st.P) : st.P[i] = Pturnover(Turned(items, t)[i], t)

\* C5: in calculate_TES_NEP, after any number of datasets, 'all
\* temperatures' holds the temperature of every dataset visited, in order,
\* T those of the datasets with a turnover, in order, and P the power of the
\* same datasets; the record returned holds the lists of the whole list.
C5_SamplesFollowTurnovers ==
    /\ (entry = "calculate_TES_NEP" /\ pc \in {"loop", "fitted", "returned"})
          => ListsAgree(lists, SubSeq(qplist.items, 1, idx), TES)
    /\ ret.kind = "record" => ListsAgree(ret, qplist.items, PyInt(ret.TES))
    /\ \A k \in 1..Len(results) :
          results[k].kind = "record"
             => ListsAgree(results[k], qplist.items, PyInt(results[k].TES))

\* a record is returned for a list whose first dataset has no turnover and
\* whose second has one
C5_Witness ==
    /\ entry = "calculate_TES_NEP"
    /\ pc = "returned"
    /\ ret.kind = "record"
    /\ Len(qplist.items) >= 2
    /\ 1 \notin WithTurnover(qplist, TES)
    /\ 2 \in WithTurnover(qplist, TES)

\* C6: a valid call of calculate_TES_NEP on a list with a dataset whose
\* selector yields no range for the channel returns a record, in which that
\* dataset has no sample.
C6_NoRangeSkipsPoint ==
    \A i \in 1..Len(qplist.items) :
        ( /\ entry = "calculate_TES_NEP"
          /\ pc \in {"returned", "raised"}
          /\ ValidCall(qplist, TES)
          /\ ChanOf(qplist.items[i], TES).range = NoRange )
        => ( /\ pc = "returned"
             /\ ret.kind = "record"
             /\ \A j \in 1..Len(ret.T) : ret.T[j] # qplist.items[i].temperature )

\* the arguments are among those the validation is to reject
InvalidInput(ql, t) ==
    \/ ~t.int
    \/ ~ql.islist
    \/ Len(ql.items) = 0
    \/ \E i \in 1..Len(ql.items) : ql.items[i].kind # "qp"
    \/ \E i, j \in 1..Len(ql.items) : ql.items[i].asic # ql.items[j].asic

\* C8: an entry point called with invalid input returns None: nothing is
\* raised, no curve is read and no result is built.
C8_InvalidInputReturnsNone ==
    ( /\ entry # "none"
      /\ InvalidInput(qplist, IF entry \in BatchEntries THEN PyInt(1) ELSE TES) )
    => (pc = "returned" /\ ret = PyNone /\ reads = {} /\ results = <<>>)

\* the adjusted currents (in microamps) of the selected range
SelectedCurrents(go, t) ==
    { ChanOf(go, t).Iadjusted[k + 1] :
        k \in { m \in ChanOf(go, t).range[1]..(ChanOf(go, t).range[2] - 1) :
                   m < Len(ChanOf(go, t).Iadjusted) } }

\* the turnover current in microamps: the fitted one of the metadata, else
\* a smallest current of the selected range
TurnoverCurrents(go, t) ==
    IF ~IsNone(ChanOf(go, t).Iturnover)
    THEN { ChanOf(go, t).Iturnover }
    ELSE { x \in SelectedCurrents(go, t) :
             \A y \in SelectedCurrents(go, t) : ~Less(y, x) }

\* p = I * Rshunt*(V/Rbias - I) with I in amps, cleared of the division:
\* p * Rbias = I * Rshunt * (V - I*Rbias)
PowerOf(go, t, p) ==
    \E Iu \in TurnoverCurrents(go, t) :
        Mul(p, go.Rbias) =
            Mul(Mul(Mul(Micro, Iu), go.Rshunt),
                Sub(ChanOf(go, t).turnover, Mul(Mul(Micro, Iu), go.Rbias)))

\* C9: every power of a record is I*Rshunt*(V_turnover/Rbias - I) for the
\* dataset of the sample, with its own Rshunt and Rbias, I being 1e-6 times
\* the fitted turnover current of the metadata when there is one and else
\* 1e-6 times the minimum of the adjusted current over [istart, iend).
C9_TurnoverPower ==
    /\ ret.kind = "record" =>
          \A i \in 1..Len(ret.P) :
             PowerOf(Turned(qplist.items, PyInt(ret.TES))[i], PyInt(ret.TES), ret.P[i])
    /\ \A k \in 1..Len(results) :
          results[k].kind = "record" =>
             \A i \in 1..Len(results[k].P) :
                PowerOf(Turned(qplist.items, PyInt(results[k].TES))[i],
                        PyInt(results[k].TES), results[k].P[i])

\* a record holds a power made with a fitted current, a power made with the
\* minimum of the range, and a power of a dataset with resistances of its own
C9_Witness ==
    /\ ret.kind = "record"
    /\ \E i, j, k \in 1..Len(ret.P) :
          /\ ~IsNone(ChanOf(Turned(qplist.items, PyInt(ret.TES))[i], PyInt(ret.TES)).Iturnover)
          /\ IsNone(ChanOf(Turned(qplist.items, PyInt(ret.TES))[j], PyInt(ret.TES)).Iturnover)
          /\ Turned(qplist.items, PyInt(ret.TES))[k].Rshunt # Rshunt

\* the discriminant gamma*kBoltzmann*G of the values of a record
Discriminant(r) == Mul(Mul(r.gamma, kBoltzmann), r.G)

\* nep is s*2*T0*sqrt(X), for s = 1 or -1, a finite T0 and X >= 0 (+Infinity
\* included: the product is then an infinity, or NaN with T0 = 0)
NEPFrom(nep, s, T0, X) ==
    IF IsInf(X)
    THEN IF Sign(T0) = 0 THEN nep.k = "nan"
         ELSE nep.k = "inf" /\ nep.num = s * Sign(T0)
    ELSE /\ nep.k = "root"
         /\ nep.sgn = s * Sign(T0) * Sign(X)
         /\ nep.sq = Mul(Mul(Int2Num(4), Mul(T0, T0)), X)

\* nep is a number below zero
NEPNegative(nep) ==
    \/ nep.k = "root" /\ nep.sgn = -1
    \/ nep.k = "inf" /\ nep.num = -1

\* C7 (as the code has it): the values derived from a fit never fail; with
\* D = gamma*kBoltzmann*G < 0 the NEP is -2*T0*sqrt(-D), of magnitude
\* 2*|T0|*sqrt(|D|) and of the sign opposite to T0's (negative only for
\* T0 > 0); with D >= 0 the NEP is 2*T0*sqrt(D).
C7_NEPFromDiscriminant ==
    /\ pc # "raised"
    /\ (pc = "returned" /\ temperature_fit.ok) =>
          /\ Less(Discriminant(ret), Zero)
                => NEPFrom(ret.NEP, -1, ret.T0, Neg(Discriminant(ret)))
          /\ (~Less(Discriminant(ret), Zero) /\ ~IsNaN(Discriminant(ret)))
                => NEPFrom(ret.NEP, 1, ret.T0, Discriminant(ret))

\* a record is returned for a fit with T0 < 0 and D < 0: its NEP is above
\* zero
C7_Witness ==
    /\ pc = "returned"
    /\ temperature_fit.ok
    /\ Less(Discriminant(ret), Zero)
    /\ Sign(ret.T0) < 0
    /\ ret.NEP.k = "root" /\ ret.NEP.sgn = 1

\* C7 (as stated): with D < 0 the NEP is negative and of magnitude
\* 2*T0*sqrt(|D|), whatever the sign of T0; with D >= 0 it is 2*T0*sqrt(D).
C7_NegativeDiscriminantNegativeNEP ==
    (pc = "returned" /\ temperature_fit.ok) =>
       /\ Less(Discriminant(ret), Zero)
             => /\ NEPNegative(ret.NEP)
                /\ NEPFrom(ret.NEP, -Sign(ret.T0), ret.T0, Neg(Discriminant(ret)))
       /\ (~Less(Discriminant(ret), Zero) /\ ~IsNaN(Discriminant(ret)))
             => NEPFrom(ret.NEP, 1, ret.T0, Discriminant(ret))

\* 2*n+1
TwoNPlusOne(n) == Add(Add(n, n), One)

\* g is n*K*T0^(n-1): for T0 # 0, g*T0 = n*K*T0^n (both NaN when the power
\* is); for T0 = 0 the power is 1 (n = 1), 0 (n > 1) or +Infinity (n < 1)
ConductanceOf(g, K, T0, n) ==
    IF Sign(T0) # 0
    THEN IF IsNaN(Pow(T0, n)) THEN IsNaN(g)
         ELSE IsFin(g) /\ Mul(g, T0) = Mul(Mul(n, K), Pow(T0, n))
    ELSE IF n = One THEN g = Mul(n, K)
    ELSE IF Less(One, n) THEN g = Zero
    ELSE g = Mul(Mul(n, K), PInf)

\* gm is (n/(2n+1))*(1 - r^(2n+1))/(1 - r^n) for a finite r, cleared of the
\* divisions: gm*(2n+1)*(1 - r^n) = n*(1 - r^(2n+1)); it is not finite
\* exactly when r^n = 1 or a power is not a number
GammaOf(gm, r, n) ==
    IF IsFin(gm)
    THEN /\ Pow(r, n) # One
         /\ Mul(Mul(gm, TwoNPlusOne(n)), Sub(One, Pow(r, n)))
               = Mul(n, Sub(One, Pow(r, TwoNPlusOne(n))))
    ELSE \/ Pow(r, n) = One
         \/ ~IsFin(Pow(r, n))
         \/ ~IsFin(Pow(r, TwoNPlusOne(n)))

\* C10: the record of a converged fit (K, T0, n) holds the three parameters,
\* G = n*K*T0^(n-1), gamma = (n/(2n+1))*(1 - r^(2n+1))/(1 - r^n) with
\* r = 0.3/T0 (r*T0 = 0.3), and the NEP made of D = gamma*kBoltzmann*G and T0
\* alone, for whatever list the fit was made on.
C10_ClosedForms ==
    (pc = "returned" /\ temperature_fit.ok) =>
       /\ ret.K = temperature_fit.K
       /\ ret.T0 = temperature_fit.T0
       /\ ret.n = temperature_fit.n
       /\ ConductanceOf(ret.G, temperature_fit.K, temperature_fit.T0,
                        temperature_fit.n)
       /\ Sign(temperature_fit.T0) # 0 =>
             \E r \in { Tratio_of(temperature_fit.T0) } :
                /\ Mul(r, temperature_fit.T0) = Tref
                /\ GammaOf(ret.gamma, r, temperature_fit.n)
       /\ IF Less(Discriminant(ret), Zero)
          THEN NEPFrom(ret.NEP, -1, temperature_fit.T0, Neg(Discriminant(ret)))
          ELSE IF IsNaN(Discriminant(ret)) THEN ret.NEP.k = "nan"
          ELSE NEPFrom(ret.NEP, 1, temperature_fit.T0, Discriminant(ret))

\* a record is returned for a converged fit whose G, gamma and NEP are
\* finite and not zero
C10_Witness ==
    /\ pc = "returned"
    /\ temperature_fit.ok
    /\ IsFin(ret.G) /\ Sign(ret.G) # 0
    /\ IsFin(ret.gamma) /\ Sign(ret.gamma) # 0
    /\ ret.NEP.k = "root" /\ ret.NEP.sgn # 0
    /\ temperature_fit.n # One

RunReturnedRecord ==
    /\ pc = "returned"
    /\ ret.kind = "record"
    /\ ret.TES = TES.v
    /\ ret.ASIC = qplist.items[1].asic
    /\ ret.P = lists.P
    /\ ret.T = lists.T
    /\ ret.all_T = lists.all_T
    /\ Len(ret.all_T) = Len(qplist.items)
    /\ IsNone(ret.NEP) <=> temperature_fit = NoFit

\* a step of a validated run: from the loop to the loop or to the fit, made
\* once and after the last dataset, and from the fit to the return
RunStep ==
    /\ pc = "loop" => pc' \in {"loop", "fitted"}
    /\ pc = "fitted" => pc' = "returned"
    /\ nfits' # nfits =>
          /\ pc = "loop" /\ pc' = "fitted"
          /\ nfits = 0 /\ nfits' = 1
          /\ idx = Len(qplist.items)

\* C12: a validated run of calculate_TES_NEP collects the samples, then
\* attempts the fit once, after the last dataset, and then returns; every
\* validated run eventually returns a record with the channel, the ASIC, P,
\* T and the temperatures, whether the fit failed or converged.
C12_RunReachesTerminalRecord ==
    /\ [][RunStep]_vars
    /\ [](pc = "loop" => <>RunReturnedRecord)

\* the list rs holds one record per channel of an array of npix channels,
\* in increasing order of the channel
OneRecordPerTES(rs, npix) ==
    /\ Len(rs) = npix
    /\ \A i \in 1..Len(rs) : rs[i].kind = "record" /\ rs[i].TES = i

\* C13: for a list of datasets of one ASIC, make_TES_NEP_resultslist
\* returns a list with one record, never None, for each channel
\* 1..NPIXELS of the array and no other, in increasing order of the channel,
\* and the histogram and the report read 'NEP' from every entry of theirs.
C13_OneRecordPerTES ==
    ( /\ entry \in BatchEntries
      /\ Len(qplist.items) >= 1
      /\ ValidCall(qplist, PyInt(1)) )
    => /\ entry = "make_TES_NEP_resultslist" =>
             /\ pc # "raised"
             /\ pc = "returned" =>
                   /\ ret.kind = "list"
                   /\ OneRecordPerTES(ret.items, qplist.items[1].NPIXELS)
       /\ pc = "NEPresults" =>
             /\ OneRecordPerTES(results, qplist.items[1].NPIXELS)
             /\ ~ResultsRaise(results)
=============================================================================
